---- MODULE Spec2Model ----
(***************************************************************************)
(* pytorch_helpers: the paired image/mask transforms (transforms.py) and   *)
(* the segmentation dataset (datasets/segmentation.py).                    *)
(*                                                                         *)
(* An array is modelled by its shape and by the history of the operations  *)
(* that produced it from the loaded array, so that "unchanged", "the pair  *)
(* returned by step i" and "the window lies inside the image" are all      *)
(* things a check can refute.                                              *)
(***************************************************************************)
EXTENDS Integers, Sequences, FiniteSets, TLC

\* ------------------------------------------------------------------ bounds
\* Largest height / width of a loaded array.
MaxDim == 3
\* np.random.rand() is drawn from {0/RandSteps, ..., (RandSteps-1)/RandSteps};
\* p is given in the same unit, so p = RandSteps is the probability 1.
RandSteps == 2
\* Longest list handed to ImageMaskTransformsCompose.
MaxPipe == 2
\* Largest number of image references of a dataset.
MaxRefs == 2

\* ------------------------------------------------------------------ values
Max(a, b) == IF a >= b THEN a ELSE b
Min(a, b) == IF a <= b THEN a ELSE b

\* ImageMaskTransformMode
ModeImage == "Image"
ModeMask == "Mask"

\* A dense array: np.ndarray of shape (H, W) or (H, W, C).
NdArray(shape) == [type |-> "ndarray", shape |-> shape, hist |-> <<>>]
\* The scalar 0 the dataset uses when it has no mask list.
Sentinel == [type |-> "int", shape |-> <<>>, hist |-> <<>>]
\* Python's None (the default of __call__'s mask argument).
None == [type |-> "None", shape |-> <<>>, hist |-> <<>>]

\* isinstance(x, np.ndarray)
IsNdArray(x) == x.type = "ndarray"

\* The result of an array operation: the new shape, and the operation
\* appended to the history.
Apply(arr, op, args, shape) ==
    [arr EXCEPT !.shape = shape,
                !.hist = Append(arr.hist, [op |-> op, args |-> args])]

\* The shape with its two spatial entries replaced, the channel axis kept.
WithHW(shape, h, w) == <<h, w>> \o SubSeq(shape, 3, Len(shape))

\* len(range(n)[a:b]) for 0 <= a, 0 <= b: Python clips a slice to the axis.
SliceLen(n, a, b) == Max(0, Min(b, n) - Min(a, n))

\* image[a0:b0, a1:b1]
Slice(arr, a0, b0, a1, b1) ==
    Apply(arr, "slice", <<a0, b0, a1, b1>>,
          WithHW(arr.shape, SliceLen(arr.shape[1], a0, b0),
                            SliceLen(arr.shape[2], a1, b1)))

\* randint with the upper end included, as random.randint has it.
randint_inclusive(low, high) == low .. high

\* np.random.randint(low, high): the values it can return; it raises
\* ValueError when low >= high, which is when this set is empty.
randint(low, high) == low .. (high - 1)

\* What one transform(image, mode) call can do: return `out` and leave the
\* instance's cached parameter at `cache`, or raise `err` (out is then unused).
Ok(out, cache) == [out |-> out, cache |-> cache, err |-> "none"]
Raise(arr, cache, err) == [out |-> arr, cache |-> cache, err |-> err]

\* ------------------------------------------------- the transform classes
\* BaseImageMaskTransformer.__init__: the fields every paired transform has.
\* arg holds the subclass's constructor arguments, cache the parameter the
\* subclass keeps on the instance between its image half and its mask half.
BaseImageMaskTransformer(kind, arg, cache, p, apply_always, apply_image, apply_mask) ==
    [kind |-> kind, arg |-> arg, cache |-> cache, p |-> p,
     apply_always |-> apply_always, apply_image |-> apply_image,
     apply_mask |-> apply_mask]

RandomVerticalFlip(p, aa, ai, am) ==
    BaseImageMaskTransformer("RandomVerticalFlip", <<>>, <<>>, p, aa, ai, am)
RandomHorizontalFlip(p, aa, ai, am) ==
    BaseImageMaskTransformer("RandomHorizontalFlip", <<>>, <<>>, p, aa, ai, am)
RandomTranspose(p, aa, ai, am) ==
    BaseImageMaskTransformer("RandomTranspose", <<>>, <<>>, p, aa, ai, am)
\* self.apply_always = True
Resize(size, p, aa, ai, am) ==
    BaseImageMaskTransformer("Resize", <<size>>, <<>>, p, TRUE, ai, am)
\* self.apply_always = True
CopyNumpy(p, aa, ai, am) ==
    BaseImageMaskTransformer("CopyNumpy", <<>>, <<>>, p, TRUE, ai, am)
\* self.apply_always = True; _patch_coordinate_h = _patch_coordinate_w = 0
SamplePatch(patch_size, p, aa, ai, am) ==
    BaseImageMaskTransformer("SamplePatch", <<patch_size>>, <<0, 0>>, p, TRUE, ai, am)
\* self.apply_mask = False
Add(p, aa, ai, am) ==
    BaseImageMaskTransformer("Add", <<>>, <<>>, p, aa, ai, FALSE)
\* self.apply_mask = False
ContrastNormalization(p, aa, ai, am) ==
    BaseImageMaskTransformer("ContrastNormalization", <<>>, <<>>, p, aa, ai, FALSE)
\* iaa.Affine(rotate=0, mode=self.mode)
Rotate(from_val, to_val, p, aa, ai, am) ==
    BaseImageMaskTransformer("Rotate", <<from_val, to_val>>, <<0>>, p, aa, ai, am)
\* iaa.Affine(rotate=0)
Rotate90n(p, aa, ai, am) ==
    BaseImageMaskTransformer("Rotate90n", <<>>, <<0>>, p, aa, ai, am)
\* iaa.Affine(scale=1.0, mode=self.mode); scales are counted in tenths
Scale(from_val, to_val, p, aa, ai, am) ==
    BaseImageMaskTransformer("Scale", <<from_val, to_val>>, <<10>>, p, aa, ai, am)
\* self.apply_always = True; self.apply_mask = False; an int border_size is
\* made the 4-tuple (top, bottom, left, right)
MakeBorder(border_size, p, aa, ai, am) ==
    BaseImageMaskTransformer("MakeBorder",
        <<border_size, border_size, border_size, border_size>>, <<>>,
        p, TRUE, ai, FALSE)
\* self.apply_always = True
Squarify(p, aa, ai, am) ==
    BaseImageMaskTransformer("Squarify", <<>>, <<>>, p, TRUE, ai, am)

\* The classes that sample a geometric parameter on the image half and keep it.
CachingKinds == {"SamplePatch", "Rotate", "Rotate90n", "Scale"}

\* np.flipud / np.fliplr
RandomVerticalFlip_transform(t, image, mode) ==
    {Ok(Apply(image, "flipud", <<>>, image.shape), t.cache)}
RandomHorizontalFlip_transform(t, image, mode) ==
    {Ok(Apply(image, "fliplr", <<>>, image.shape), t.cache)}

\* np.transpose(image, [1, 0]) or [1, 0, 2]
RandomTranspose_transform(t, image, mode) ==
    {Ok(Apply(image, "transpose", <<>>,
              WithHW(image.shape, image.shape[2], image.shape[1])), t.cache)}

\* cv2.resize to (size, size): INTER_LINEAR for the image, INTER_NEAREST for
\* the mask.
Resize_transform(t, image, mode) ==
    LET interpolation == IF mode = ModeImage THEN "resize_linear"
                                             ELSE "resize_nearest"
    IN {Ok(Apply(image, interpolation, t.arg,
                 WithHW(image.shape, t.arg[1], t.arg[1])), t.cache)}

CopyNumpy_transform(t, image, mode) ==
    {Ok(Apply(image, "copy", <<>>, image.shape), t.cache)}

\* The window SamplePatch cuts at the cached coordinates.
SamplePatch_window(image, patch_size, c) ==
    Slice(image, c[1], c[1] + patch_size, c[2], c[2] + patch_size)

\* SamplePatch clipping the sampling range to one offset instead of raising.
SamplePatch_transform_clip(t, image, mode) ==
    LET patch_size == t.arg[1]
        max_height == Max(1, image.shape[1] - patch_size)
        max_width == Max(1, image.shape[2] - patch_size)
    IN IF mode = ModeImage
       THEN {Ok(SamplePatch_window(image, patch_size, <<h, w>>), <<h, w>>) :
               h \in randint(0, max_height), w \in randint(0, max_width)}
       ELSE {Ok(SamplePatch_window(image, patch_size, t.cache), t.cache)}

\* SamplePatch.transform: on the image half the two coordinates are drawn, the
\* height first; a failed draw raises ValueError after whatever was already
\* assigned. Both halves then slice at the coordinates the instance holds.
SamplePatch_transform(t, image, mode) ==
    LET patch_size == t.arg[1]
        max_height == image.shape[1] - patch_size
        max_width == image.shape[2] - patch_size
    IN IF mode = ModeImage
       THEN IF randint(0, max_height) = {}
            THEN {Raise(image, t.cache, "ValueError")}
            ELSE IF randint(0, max_width) = {}
            THEN {Raise(image, <<h, t.cache[2]>>, "ValueError") :
                    h \in randint(0, max_height)}
            ELSE {Ok(SamplePatch_window(image, patch_size, <<h, w>>), <<h, w>>) :
                    h \in randint(0, max_height), w \in randint(0, max_width)}
       ELSE {Ok(SamplePatch_window(image, patch_size, t.cache), t.cache)}

\* iaa.Add / iaa.ContrastNormalization: photometric, the shape is kept.
Add_transform(t, image, mode) ==
    {Ok(Apply(image, "add", <<>>, image.shape), t.cache)}
ContrastNormalization_transform(t, image, mode) ==
    {Ok(Apply(image, "contrast", <<>>, image.shape), t.cache)}

\* The augmentor applied with the parameter the instance holds.
Affine(image, op, cache) == Apply(image, op, cache, image.shape)

\* Rotate.transform: the angle is drawn on the image half only and stored in
\* the augmentor; both halves are augmented with the stored angle.
Rotate_transform(t, image, mode) ==
    IF mode = ModeImage
    THEN IF randint(t.arg[1], t.arg[2]) = {}
         THEN {Raise(image, t.cache, "ValueError")}
         ELSE {Ok(Affine(image, "rotate", <<angle>>), <<angle>>) :
                 angle \in randint(t.arg[1], t.arg[2])}
    ELSE {Ok(Affine(image, "rotate", t.cache), t.cache)}

\* self._angles
Rotate90n_angles == {0, 90, 180, 270}

Rotate90n_transform(t, image, mode) ==
    IF mode = ModeImage
    THEN {Ok(Affine(image, "rotate", <<angle>>), <<angle>>) :
            angle \in Rotate90n_angles}
    ELSE {Ok(Affine(image, "rotate", t.cache), t.cache)}

\* np.random.uniform(low, high) on the grid of tenths: a value of [low, high).
uniform(low, high) == low .. (high - 1)

Scale_transform(t, image, mode) ==
    IF mode = ModeImage
    THEN {Ok(Affine(image, "scale", <<scale>>), <<scale>>) :
            scale \in uniform(t.arg[1], t.arg[2])}
    ELSE {Ok(Affine(image, "scale", t.cache), t.cache)}

\* cv2.copyMakeBorder(image, top, bottom, left, right, BORDER_REFLECT)
MakeBorder_transform(t, image, mode) ==
    {Ok(Apply(image, "border", t.arg,
              WithHW(image.shape, image.shape[1] + t.arg[1] + t.arg[2],
                                  image.shape[2] + t.arg[3] + t.arg[4])), t.cache)}

\* The crops with the same amount taken at both ends.
Squarify_crop_even(image_side_size, target_size) ==
    IF image_side_size <= target_size
    THEN <<0, 0>>
    ELSE LET crop_total == image_side_size - target_size
             crop_before == crop_total \div 2
         IN <<crop_before, crop_before>>

\* Squarify.transform's crops: (crop_before, crop_after) of one spatial side.
Squarify_crop(image_side_size, target_size) ==
    IF image_side_size <= target_size
    THEN <<0, 0>>
    ELSE LET crop_total == image_side_size - target_size
             crop_before == crop_total \div 2
             crop_after == image_side_size - target_size - crop_before
         IN <<crop_before, crop_after>>

\* Squarify.transform: slice(a, shape[i] - b) on each spatial axis, the
\* channel axis whole.
Squarify_transform(t, image, mode) ==
    LET target_size == Min(image.shape[1], image.shape[2])
        c0 == Squarify_crop(image.shape[1], target_size)
        c1 == Squarify_crop(image.shape[2], target_size)
    IN {Ok(Slice(image, c0[1], image.shape[1] - c0[2],
                        c1[1], image.shape[2] - c1[2]), t.cache)}

\* The abstract method, dispatched on the instance's class.
transform(t, image, mode) ==
    CASE t.kind = "RandomVerticalFlip" -> RandomVerticalFlip_transform(t, image, mode)
      [] t.kind = "RandomHorizontalFlip" -> RandomHorizontalFlip_transform(t, image, mode)
      [] t.kind = "RandomTranspose" -> RandomTranspose_transform(t, image, mode)
      [] t.kind = "Resize" -> Resize_transform(t, image, mode)
      [] t.kind = "CopyNumpy" -> CopyNumpy_transform(t, image, mode)
      [] t.kind = "SamplePatch" -> SamplePatch_transform(t, image, mode)
      [] t.kind = "Add" -> Add_transform(t, image, mode)
      [] t.kind = "ContrastNormalization" -> ContrastNormalization_transform(t, image, mode)
      [] t.kind = "Rotate" -> Rotate_transform(t, image, mode)
      [] t.kind = "Rotate90n" -> Rotate90n_transform(t, image, mode)
      [] t.kind = "Scale" -> Scale_transform(t, image, mode)
      [] t.kind = "MakeBorder" -> MakeBorder_transform(t, image, mode)
      [] t.kind = "Squarify" -> Squarify_transform(t, image, mode)

\* ------------------------------------- BaseImageMaskTransformer.__call__
\* The values np.random.rand() can return, and the probabilities p, both in
\* units of 1/RandSteps: rand() is in [0, 1), p in [0, 1].
Draws == 0 .. (RandSteps - 1)
Probabilities == 0 .. RandSteps

\* The gate with the comparison made strict.
GatePasses_strict(t, r) == r > t.p \/ t.apply_always

\* if np.random.rand() >= self.p or self.apply_always:
GatePasses(t, r) == r >= t.p \/ t.apply_always

\* What a spy on transform() records of one invocation: the instance's class
\* and constructor arguments, the half, the array passed, the array returned,
\* the parameter the instance holds when the call ends (the one it sliced or
\* augmented with), the error.
Invocation(t, mode, arg, o) ==
    [kind |-> t.kind, targ |-> t.arg, mode |-> mode, arg |-> arg, out |-> o.out,
     used |-> o.cache, err |-> o.err]

\* One half of the call: the array after it, the instance's cache after it,
\* the error raised, and the invocations of transform() it made.
Half(arr, cache, err, invs) ==
    [arr |-> arr, cache |-> cache, err |-> err, invs |-> invs]

\* if self.apply_image: image = self.transform(image, mode=Image)
ImageHalf(t, image) ==
    IF t.apply_image
    THEN {Half(IF o.err = "none" THEN o.out ELSE image, o.cache, o.err,
               <<Invocation(t, ModeImage, image, o)>>) :
            o \in transform(t, image, ModeImage)}
    ELSE {Half(image, t.cache, "none", <<>>)}

\* The mask half calling transform with the image's mode, so that it samples
\* a parameter of its own.
MaskHalf_imagemode(t, mask) ==
    IF t.apply_mask /\ mask # None /\ IsNdArray(mask)
    THEN {Half(IF o.err = "none" THEN o.out ELSE mask, o.cache, o.err,
               <<Invocation(t, ModeMask, mask, o)>>) :
            o \in transform(t, mask, ModeImage)}
    ELSE {Half(mask, t.cache, "none", <<>>)}

\* if self.apply_mask and mask is not None and isinstance(mask, np.ndarray):
\*     mask = self.transform(mask, mode=Mask)
MaskHalf(t, mask) ==
    IF t.apply_mask /\ mask # None /\ IsNdArray(mask)
    THEN {Half(IF o.err = "none" THEN o.out ELSE mask, o.cache, o.err,
               <<Invocation(t, ModeMask, mask, o)>>) :
            o \in transform(t, mask, ModeMask)}
    ELSE {Half(mask, t.cache, "none", <<>>)}

\* return image if mask is None else (image, mask)
Returned(image, mask) == IF mask = None THEN <<image>> ELSE <<image, mask>>

\* __call__(image, mask) as one sequential call: every way it can end. ret is
\* the value returned (empty when it raised), cache the instance's cache after.
Call(t, image, mask) ==
    UNION {
      IF GatePasses(t, r)
      THEN UNION {
             IF i.err # "none"
             THEN {[ret |-> <<>>, cache |-> i.cache, err |-> i.err,
                    invs |-> i.invs, r |-> r]}
             ELSE {[ret |-> IF m.err = "none" THEN Returned(i.arr, m.arr) ELSE <<>>,
                    cache |-> m.cache, err |-> m.err,
                    invs |-> i.invs \o m.invs, r |-> r] :
                     m \in MaskHalf([t EXCEPT !.cache = i.cache], mask)}
             : i \in ImageHalf(t, image)}
      ELSE {[ret |-> Returned(image, mask), cache |-> t.cache, err |-> "none",
             invs |-> <<>>, r |-> r]}
      : r \in Draws}

\* ----------------------------------------------- workers making paired calls
\* Each worker calls one transform instance on pairs, a half at a time; two
\* workers either hold an instance each or share one.
VARIABLES
    tf,       \* instance id -> the transform instance (its cache included)
    use,      \* worker -> the instance it calls
    wpc,      \* worker -> where it is in __call__
    wimage,   \* worker -> __call__'s local image
    wmask,    \* worker -> __call__'s local mask
    warg,     \* worker -> the pair the current call was given
    wr,       \* worker -> the value rand() returned in the current call
    winvs,    \* worker -> the invocations of transform() in the current call
    wret,     \* worker -> what the current call returned
    shapes    \* the shapes of the images the workers' callers hold

wvars == <<tf, use, wpc, wimage, wmask, warg, wr, winvs, wret, shapes>>

\* The dataset, and the __getitem__ its caller is in.
VARIABLES
    images,           \* self.images: the image references
    masks,            \* self.masks: None, or the mask references
    nb_images,        \* self.nb_images
    transform_,       \* self.transform: None, or the composed paired transforms
    image_transform,  \* self.image_transform is configured
    mask_transform,   \* self.mask_transform is configured
    subclass,         \* what the subclass's constructor will put in the lists
    pc,               \* where the dataset's caller is
    index,            \* __getitem__'s argument
    image,            \* the local image
    mask,             \* the local mask
    loaded,           \* the pair _load_image_and_mask returned
    step,             \* the position of Compose's loop
    steps,            \* the steps Compose has executed: index, pair in, pair out
    spied,            \* the invocations of transform() and of the post-transforms
    err,              \* the exception that reached __getitem__'s caller
    ret               \* what __getitem__ returned

dvars == <<images, masks, nb_images, transform_, image_transform, mask_transform,
           subclass, pc, index, image, mask, loaded, step, steps, spied, err,
           ret>>

vars == <<wvars, dvars>>

\* The workers there can be, and those there are.
WorkerIds == {1, 2}
Workers == DOMAIN use

\* The spatial shapes of the arrays handed to a call.
Shapes == {<<h, w>> : h \in 1 .. MaxDim, w \in 1 .. MaxDim}

\* The masks a caller passes with an image of that shape: none at all, the
\* dataset's scalar, or a label array of the image's spatial size.
MasksFor(img) == {None, Sentinel, NdArray(SubSeq(img.shape, 1, 2))}

\* The draw made so far in the current call: -1 before the gate.
NoDraw == 0 - 1

\* __call__(image, mask) is entered with an image the caller holds and a mask
\* that goes with it.
CallStart(w) ==
    /\ w \in Workers
    /\ wpc[w] = "idle"
    /\ \E shape \in shapes :
         \E m \in MasksFor(NdArray(shape)) :
            /\ wimage' = [wimage EXCEPT ![w] = NdArray(shape)]
            /\ wmask' = [wmask EXCEPT ![w] = m]
            /\ warg' = [warg EXCEPT ![w] = <<NdArray(shape), m>>]
    /\ wpc' = [wpc EXCEPT ![w] = "gate"]
    /\ UNCHANGED <<tf, use, wr, winvs, wret, shapes>>
    /\ UNCHANGED dvars

\* The draw and the test of line 31.
Gate(w) ==
    /\ w \in Workers
    /\ wpc[w] = "gate"
    /\ \E r \in Draws :
         /\ wr' = [wr EXCEPT ![w] = r]
         /\ wpc' = [wpc EXCEPT ![w] =
                      IF GatePasses(tf[use[w]], r) THEN "image" ELSE "return"]
    /\ UNCHANGED <<tf, use, wimage, wmask, warg, winvs, wret, shapes>>
    /\ UNCHANGED dvars

\* Lines 33-34. The half is one step: with an instance of its own a worker's
\* half is not interfered with, and a mix-up between whole halves of a shared
\* instance is also one of the finer-grained schedule.
ImageHalfStep(w) ==
    /\ w \in Workers
    /\ wpc[w] = "image"
    /\ \E o \in ImageHalf(tf[use[w]], wimage[w]) :
         /\ tf' = [tf EXCEPT ![use[w]].cache = o.cache]
         /\ wimage' = [wimage EXCEPT ![w] = o.arr]
         /\ winvs' = [winvs EXCEPT ![w] = @ \o o.invs]
         /\ wpc' = [wpc EXCEPT ![w] = IF o.err = "none" THEN "mask" ELSE "raised"]
    /\ UNCHANGED <<use, wmask, warg, wr, wret, shapes>>
    /\ UNCHANGED dvars

\* Lines 36-37.
MaskHalfStep(w) ==
    /\ w \in Workers
    /\ wpc[w] = "mask"
    /\ \E o \in MaskHalf(tf[use[w]], wmask[w]) :
         /\ tf' = [tf EXCEPT ![use[w]].cache = o.cache]
         /\ wmask' = [wmask EXCEPT ![w] = o.arr]
         /\ winvs' = [winvs EXCEPT ![w] = @ \o o.invs]
         /\ wpc' = [wpc EXCEPT ![w] = IF o.err = "none" THEN "return" ELSE "raised"]
    /\ UNCHANGED <<use, wimage, warg, wr, wret, shapes>>
    /\ UNCHANGED dvars

\* Lines 39-42.
Return(w) ==
    /\ w \in Workers
    /\ wpc[w] = "return"
    /\ wret' = [wret EXCEPT ![w] = Returned(wimage[w], wmask[w])]
    /\ wpc' = [wpc EXCEPT ![w] = "returned"]
    /\ UNCHANGED <<tf, use, wimage, wmask, warg, wr, winvs, shapes>>
    /\ UNCHANGED dvars

\* The caller has the result, or the exception: the call's frame is gone, and
\* only the instance keeps what the call left in it.
CallEnd(w) ==
    /\ w \in Workers
    /\ wpc[w] \in {"returned", "raised"}
    /\ wpc' = [wpc EXCEPT ![w] = "idle"]
    /\ wimage' = [wimage EXCEPT ![w] = None]
    /\ wmask' = [wmask EXCEPT ![w] = None]
    /\ warg' = [warg EXCEPT ![w] = <<None, None>>]
    /\ wr' = [wr EXCEPT ![w] = NoDraw]
    /\ winvs' = [winvs EXCEPT ![w] = <<>>]
    /\ wret' = [wret EXCEPT ![w] = <<>>]
    /\ UNCHANGED <<tf, use, shapes>>
    /\ UNCHANGED dvars

\* ------------------------------------------ BaseImageSegmentationDataset

\* self.masks = None, and a configured list.
NoMasks == [configured |-> FALSE, refs |-> <<>>]
MaskList(refs) == [configured |-> TRUE, refs |-> refs]

\* self.transform = None, and ImageMaskTransformsCompose(transforms).
NoTransform == [configured |-> FALSE, transforms |-> <<>>]
ImageMaskTransformsCompose(transforms) ==
    [configured |-> TRUE, transforms |-> transforms]

\* The references <<1, ..., n>> of n files.
RefList(n) == [i \in 1 .. n |-> i]

\* __len__
length == nb_images

\* The subclass's constructor populates self.images and self.masks; whether it
\* also stores the count in self.nb_images is its own business.
SubclassInit ==
    /\ pc = "constructing"
    /\ images' = RefList(subclass.n_images)
    /\ masks' = IF subclass.with_masks THEN MaskList(RefList(subclass.n_masks))
                                       ELSE NoMasks
    /\ nb_images' = IF subclass.sets_nb_images THEN subclass.n_images ELSE nb_images
    /\ pc' = "idle"
    /\ UNCHANGED <<transform_, image_transform, mask_transform, subclass, index,
                   image, mask, loaded, step, steps, spied, err, ret>>
    /\ UNCHANGED wvars

\* list[index]: Python accepts -len <= index < len and counts a negative index
\* from the end; anything else is an IndexError.
InRange(list, i) == -Len(list) <= i /\ i < Len(list)
GetItemOf(list, i) == IF i >= 0 THEN list[i + 1] ELSE list[Len(list) + i + 1]

\* load_image(path, grayscale): the file decoded as (H, W, 3), or (H, W) in
\* grayscale; LoadError when the file is missing or corrupt.
load_image(path, grayscale) ==
    {[arr |-> NdArray(IF grayscale THEN shape ELSE shape \o <<3>>), err |-> "none"] :
        shape \in Shapes}
    \cup {[arr |-> None, err |-> "LoadError"]}

\* _load_image_and_mask(index): every way it can end.
load_image_and_mask(i) ==
    IF ~InRange(images, i)
    THEN {[image |-> None, mask |-> None, err |-> "IndexError"]}
    ELSE UNION {
           IF li.err # "none"
           THEN {[image |-> None, mask |-> None, err |-> li.err]}
           ELSE IF masks.configured
           THEN IF ~InRange(masks.refs, i)
                THEN {[image |-> None, mask |-> None, err |-> "IndexError"]}
                ELSE {IF lm.err # "none"
                      THEN [image |-> None, mask |-> None, err |-> lm.err]
                      ELSE [image |-> li.arr, mask |-> lm.arr, err |-> "none"] :
                        lm \in {l \in load_image(GetItemOf(masks.refs, i), TRUE) :
                                  l.err # "none"
                                  \/ l.arr.shape = SubSeq(li.arr.shape, 1, 2)}}
           ELSE {[image |-> li.arr, mask |-> Sentinel, err |-> "none"]}
           : li \in load_image(GetItemOf(images, i), FALSE)}

\* The indices a caller may pass.
Indices == (0 - MaxRefs - 1) .. (MaxRefs + 1)

\* __getitem__(index) up to the return of _load_image_and_mask.
GetItem ==
    /\ pc = "idle"
    /\ \E i \in Indices :
         /\ index' = i
         /\ \E l \in load_image_and_mask(i) :
              /\ image' = l.image
              /\ mask' = l.mask
              /\ loaded' = <<l.image, l.mask>>
              /\ err' = l.err
              /\ pc' = IF l.err = "none" THEN "transform" ELSE "raised"
    /\ UNCHANGED <<images, masks, nb_images, transform_, image_transform,
                   mask_transform, subclass, step, steps, spied, ret>>
    /\ UNCHANGED wvars

\* The caller has the sample, or the exception: __getitem__'s frame is gone,
\* and only the dataset and its transform instances keep their state.
GetItemEnd ==
    /\ pc \in {"returned", "raised"}
    /\ pc' = "idle"
    /\ index' = 0
    /\ image' = None
    /\ mask' = None
    /\ loaded' = <<None, None>>
    /\ step' = 0
    /\ steps' = <<>>
    /\ spied' = <<>>
    /\ err' = "none"
    /\ ret' = <<>>
    /\ UNCHANGED <<images, masks, nb_images, transform_, image_transform,
                   mask_transform, subclass>>
    /\ UNCHANGED wvars

\* if self.transform is not None: enter ImageMaskTransformsCompose.__call__
TransformStage ==
    /\ pc = "transform"
    /\ pc' = IF transform_.configured THEN "compose" ELSE "image_transform"
    /\ step' = IF transform_.configured THEN 1 ELSE step
    /\ UNCHANGED <<images, masks, nb_images, transform_, image_transform,
                   mask_transform, subclass, index, image, mask, loaded, steps,
                   spied, err, ret>>
    /\ UNCHANGED wvars

\* The loop running over the list from its end.
ComposeStep_reversed ==
    /\ pc = "compose"
    /\ step <= Len(transform_.transforms)
    /\ LET at == Len(transform_.transforms) - step + 1
       IN \E o \in Call(transform_.transforms[at], image, mask) :
            /\ transform_' = [transform_ EXCEPT !.transforms[at].cache = o.cache]
            /\ spied' = spied \o o.invs
            /\ err' = o.err
            /\ IF o.err = "none"
               THEN /\ image' = o.ret[1]
                    /\ mask' = o.ret[2]
                    /\ steps' = Append(steps, [step |-> step, in |-> <<image, mask>>,
                                               out |-> o.ret])
                    /\ step' = step + 1
                    /\ pc' = pc
               ELSE /\ pc' = "raised"
                    /\ UNCHANGED <<image, mask, steps, step>>
    /\ UNCHANGED <<images, masks, nb_images, image_transform, mask_transform,
                   subclass, index, loaded, ret>>
    /\ UNCHANGED wvars

\* One iteration of `for transform_step in self.transforms`:
\* image, mask = transform_step(image, mask). An exception leaves the loop,
\* _apply_transforms and __getitem__.
ComposeStep ==
    /\ pc = "compose"
    /\ step <= Len(transform_.transforms)
    /\ \E o \in Call(transform_.transforms[step], image, mask) :
         /\ transform_' = [transform_ EXCEPT !.transforms[step].cache = o.cache]
         /\ spied' = spied \o o.invs
         /\ err' = o.err
         /\ IF o.err = "none"
            THEN /\ image' = o.ret[1]
                 /\ mask' = o.ret[2]
                 /\ steps' = Append(steps, [step |-> step, in |-> <<image, mask>>,
                                            out |-> o.ret])
                 /\ step' = step + 1
                 /\ pc' = pc
            ELSE /\ pc' = "raised"
                 /\ UNCHANGED <<image, mask, steps, step>>
    /\ UNCHANGED <<images, masks, nb_images, image_transform, mask_transform,
                   subclass, index, loaded, ret>>
    /\ UNCHANGED wvars

\* The loop is exhausted: return image, mask.
ComposeReturn ==
    /\ pc = "compose"
    /\ step > Len(transform_.transforms)
    /\ pc' = "image_transform"
    /\ UNCHANGED <<images, masks, nb_images, transform_, image_transform,
                   mask_transform, subclass, index, image, mask, loaded, step,
                   steps, spied, err, ret>>
    /\ UNCHANGED wvars

\* A post-transform (Normalize, ToTensor, ...) applied to one array, and what a
\* spy on it records.
PostTransform(name, data) == Apply(data, name, <<>>, data.shape)
PostInvocation(name, data) ==
    [kind |-> name, targ |-> <<>>, mode |-> "post", arg |-> data,
     out |-> PostTransform(name, data), used |-> <<>>, err |-> "none"]

\* if self.image_transform is not None: image = self.image_transform(image)
ImageTransformStage ==
    /\ pc = "image_transform"
    /\ IF image_transform
       THEN /\ image' = PostTransform("image_transform", image)
            /\ spied' = Append(spied, PostInvocation("image_transform", image))
       ELSE UNCHANGED <<image, spied>>
    /\ pc' = "mask_transform"
    /\ UNCHANGED <<images, masks, nb_images, transform_, image_transform,
                   mask_transform, subclass, index, mask, loaded, step, steps, err,
                   ret>>
    /\ UNCHANGED wvars

\* The mask stage without the isinstance test.
MaskTransformStage_unchecked ==
    /\ pc = "mask_transform"
    /\ IF mask_transform
       THEN /\ mask' = PostTransform("mask_transform", mask)
            /\ spied' = Append(spied, PostInvocation("mask_transform", mask))
            /\ ret' = <<image, PostTransform("mask_transform", mask)>>
       ELSE /\ ret' = <<image, mask>>
            /\ UNCHANGED <<mask, spied>>
    /\ pc' = "returned"
    /\ UNCHANGED <<images, masks, nb_images, transform_, image_transform,
                   mask_transform, subclass, index, image, loaded, step, steps,
                   err>>
    /\ UNCHANGED wvars

\* if self.mask_transform is not None and isinstance(mask, np.ndarray):
\*     mask = self.mask_transform(mask)
\* and the return of _apply_transforms and of __getitem__.
MaskTransformStage ==
    /\ pc = "mask_transform"
    /\ IF mask_transform /\ IsNdArray(mask)
       THEN /\ mask' = PostTransform("mask_transform", mask)
            /\ spied' = Append(spied, PostInvocation("mask_transform", mask))
            /\ ret' = <<image, PostTransform("mask_transform", mask)>>
       ELSE /\ ret' = <<image, mask>>
            /\ UNCHANGED <<mask, spied>>
    /\ pc' = "returned"
    /\ UNCHANGED <<images, masks, nb_images, transform_, image_transform,
                   mask_transform, subclass, index, image, loaded, step, steps,
                   err>>
    /\ UNCHANGED wvars

\* ------------------------------------------------------- specifications
\* The instances of one class setting: every class, with the constructor
\* arguments the bounds allow.
InstancesWith(p, aa, ai, am) ==
    { RandomVerticalFlip(p, aa, ai, am), RandomHorizontalFlip(p, aa, ai, am),
      RandomTranspose(p, aa, ai, am), Resize(2, p, aa, ai, am),
      CopyNumpy(p, aa, ai, am), Add(p, aa, ai, am),
      ContrastNormalization(p, aa, ai, am), Rotate(0 - 1, 1, p, aa, ai, am),
      Rotate90n(p, aa, ai, am), Scale(9, 11, p, aa, ai, am),
      MakeBorder(1, p, aa, ai, am), Squarify(p, aa, ai, am) }
    \cup {SamplePatch(patch_size, p, aa, ai, am) : patch_size \in 1 .. MaxDim}

Instances ==
    UNION {InstancesWith(p, aa, ai, am) :
             p \in Probabilities, aa \in BOOLEAN, ai \in BOOLEAN, am \in BOOLEAN}

\* The dataset just after BaseImageSegmentationDataset.__init__, given the
\* constructor's three arguments and the subclass that is being constructed.
DatasetInit(tr, it, mt, sc) ==
    /\ images = <<>>
    /\ masks = NoMasks
    /\ nb_images = 0
    /\ transform_ = tr
    /\ image_transform = it
    /\ mask_transform = mt
    /\ subclass = sc
    /\ pc = "constructing"
    /\ index = 0
    /\ image = None
    /\ mask = None
    /\ loaded = <<None, None>>
    /\ step = 0
    /\ steps = <<>>
    /\ spied = <<>>
    /\ err = "none"
    /\ ret = <<>>

\* A subclass that populates n image references, optionally m mask references,
\* and optionally stores the count.
Subclass(n, with_masks, m, sets_nb_images) ==
    [n_images |-> n, with_masks |-> with_masks, n_masks |-> m,
     sets_nb_images |-> sets_nb_images]

\* Worker w calls instance inst[w] of the instances ts, on images of the
\* shapes S.
WorkersInit(ts, inst, S) ==
    /\ tf = ts
    /\ shapes = S
    /\ use = inst
    /\ wpc = [w \in DOMAIN inst |-> "idle"]
    /\ wimage = [w \in DOMAIN inst |-> None]
    /\ wmask = [w \in DOMAIN inst |-> None]
    /\ warg = [w \in DOMAIN inst |-> <<None, None>>]
    /\ wr = [w \in DOMAIN inst |-> NoDraw]
    /\ winvs = [w \in DOMAIN inst |-> <<>>]
    /\ wret = [w \in DOMAIN inst |-> <<>>]

NoWorkers == WorkersInit(<<>>, <<>>, {})
NoDataset == DatasetInit(NoTransform, FALSE, FALSE, Subclass(0, FALSE, 0, FALSE))

NextCall ==
    \E w \in WorkerIds :
      \/ CallStart(w)
      \/ Gate(w)
      \/ ImageHalfStep(w)
      \/ MaskHalfStep(w)
      \/ Return(w)
      \/ CallEnd(w)

\* One worker, one instance of any class and setting, paired calls in sequence.
InitCall ==
    /\ \E t \in Instances : WorkersInit(<<t>>, <<1>>, Shapes)
    /\ NoDataset

SpecCall == InitCall /\ [][NextCall]_vars

\* The caching instances the two workers are given: both halves enabled, the
\* gate open always or on some draws, and a patch that leaves SamplePatch two
\* offsets a side, or none.
WorkerInstances ==
    {i \in Instances :
       /\ i.kind \in CachingKinds
       /\ i.apply_image /\ i.apply_mask
       /\ i.apply_always = (i.kind = "SamplePatch")
       /\ i.p = (IF i.apply_always THEN 0 ELSE 1)
       /\ i.kind = "SamplePatch" => i.arg[1] \in {MaxDim - 2, MaxDim}}

\* Two workers calling concurrently: each its own instance, or both the same.
InitWorkers ==
    /\ \E t \in WorkerInstances :
         \E shared \in BOOLEAN :
            WorkersInit(<<t, t>>, IF shared THEN <<1, 1>> ELSE <<1, 2>>,
                        {<<MaxDim, MaxDim>>})
    /\ NoDataset

SpecWorkers == InitWorkers /\ [][NextCall]_vars

\* The paired transforms the dataset's pipelines are built from.
PipelineTransforms ==
    { RandomHorizontalFlip(1, FALSE, TRUE, TRUE), SamplePatch(2, 1, FALSE, TRUE, TRUE),
      Squarify(1, FALSE, TRUE, TRUE) }

RECURSIVE SeqsUpTo(_, _)
SeqsUpTo(S, n) ==
    IF n = 0 THEN {<<>>}
    ELSE LET shorter == SeqsUpTo(S, n - 1)
         IN shorter \cup {Append(q, x) : q \in shorter, x \in S}

Pipelines ==
    {NoTransform} \cup {ImageMaskTransformsCompose(ts) :
                          ts \in SeqsUpTo(PipelineTransforms, MaxPipe)}

Subclasses ==
    {Subclass(n, wm, IF wm THEN m ELSE 0, nb) :
       n \in 0 .. MaxRefs, wm \in BOOLEAN, m \in 0 .. MaxRefs, nb \in BOOLEAN}

\* The subclasses that populate consistently: n images, no masks or n masks,
\* and the count stored.
SoundSubclasses ==
    {Subclass(1, wm, IF wm THEN 1 ELSE 0, TRUE) : wm \in BOOLEAN}

NextDataset ==
    \/ SubclassInit
    \/ GetItem
    \/ GetItemEnd
    \/ TransformStage
    \/ ComposeStep
    \/ ComposeReturn
    \/ ImageTransformStage
    \/ MaskTransformStage

\* A consistently populated dataset with any pipeline and post-transforms,
\* queried by index again and again.
Init ==
    /\ NoWorkers
    /\ \E tr \in Pipelines, it \in BOOLEAN, mt \in BOOLEAN, sc \in SoundSubclasses :
         DatasetInit(tr, it, mt, sc)

Spec == Init /\ [][NextDataset]_vars

\* A dataset of any subclass, with or without a pipeline, queried by index.
InitIndex ==
    /\ NoWorkers
    /\ \E tr \in {NoTransform,
                   ImageMaskTransformsCompose(<<RandomHorizontalFlip(1, FALSE, TRUE, TRUE)>>)},
          sc \in Subclasses :
         DatasetInit(tr, TRUE, TRUE, sc)

SpecIndex == InitIndex /\ [][NextDataset]_vars

\* ------------------------------------------------------------ properties
\* The invocations of the current call of worker w that are of the given half.
HalfInvocations(w, mode) == {k \in DOMAIN winvs[w] : winvs[w][k].mode = mode}

\* The worker is past the gate of the current call.
Drawn(w) == wr[w] # NoDraw

\* C1: with apply_always false and the draw r, the call enters the applying
\* branch if and only if r >= p: transform is then invoked on the image when
\* apply_image is set and on the mask when apply_mask is set and the mask is an
\* array, and otherwise transform is not invoked and image and mask are
\* returned unchanged; so p = 0 applies on every call and p = 1 on none.
C1_AppliesIffDrawAtLeastP ==
    \A w \in Workers :
      LET t == tf[use[w]]
          passes == wr[w] >= t.p
      IN (Drawn(w) /\ ~t.apply_always) =>
           /\ (t.p = 0 => passes) /\ (t.p = RandSteps => ~passes)
           /\ wpc[w] \in {"image", "mask", "raised"} => passes
           /\ winvs[w] # <<>> => passes
           /\ wpc[w] \in {"return", "returned"} =>
                /\ HalfInvocations(w, ModeImage) # {} <=> (passes /\ t.apply_image)
                /\ HalfInvocations(w, ModeMask) # {}
                     <=> (passes /\ t.apply_mask /\ IsNdArray(warg[w][2]))
                /\ \A k \in DOMAIN winvs[w] :
                     winvs[w][k].arg = warg[w][IF winvs[w][k].mode = ModeImage THEN 1 ELSE 2]
                /\ ~passes => wimage[w] = warg[w][1] /\ wmask[w] = warg[w][2]
           /\ wpc[w] = "returned" =>
                wret[w] = Returned(wimage[w], wmask[w])

\* A call with apply_always false whose draw equals p > 0 has transformed both
\* halves and returned.
C1_Witness ==
    \E w \in Workers :
      /\ ~tf[use[w]].apply_always /\ wr[w] = tf[use[w]].p /\ wr[w] > 0
      /\ wpc[w] = "returned"
      /\ HalfInvocations(w, ModeImage) # {} /\ HalfInvocations(w, ModeMask) # {}
      /\ wret[w] # warg[w]

\* C2: on an instance of a caching class, whatever its flags, a call that
\* transforms an array mask uses for it the parameter sampled during the image
\* half of the same call.
C2_MaskUsesParameterOfSameCall ==
    \A w \in Workers :
      tf[use[w]].kind \in CachingKinds =>
        \A m \in HalfInvocations(w, ModeMask) :
          \E i \in HalfInvocations(w, ModeImage) :
            /\ i < m
            /\ winvs[w][i].err = "none"
            /\ winvs[w][i].used = winvs[w][m].used

\* C10: the image half of SamplePatch succeeds exactly when patch_size is
\* strictly smaller than both H and W, and fails with ValueError otherwise
\* (patch_size equal to H or W included); on success the offsets satisfy
\* 0 <= h <= H - patch_size - 1 and 0 <= w <= W - patch_size - 1 and the window
\* returned is patch_size x patch_size, cut at those offsets inside the image.
C10_PatchStrictlyInside ==
    \A w \in Workers :
      \A k \in HalfInvocations(w, ModeImage) :
        LET v == winvs[w][k]
            patch_size == v.targ[1]
            H == v.arg.shape[1]
            W == v.arg.shape[2]
        IN v.kind = "SamplePatch" =>
             /\ v.err = "none" <=> (patch_size < H /\ patch_size < W)
             /\ v.err \in {"none", "ValueError"}
             /\ v.err = "none" =>
                  /\ 0 <= v.used[1] /\ v.used[1] <= H - patch_size - 1
                  /\ 0 <= v.used[2] /\ v.used[2] <= W - patch_size - 1
                  /\ v.out.shape = WithHW(v.arg.shape, patch_size, patch_size)
                  /\ v.out.hist = Append(v.arg.hist,
                        [op |-> "slice",
                         args |-> <<v.used[1], v.used[1] + patch_size,
                                    v.used[2], v.used[2] + patch_size>>])
                  /\ v.used[1] + patch_size <= H /\ v.used[2] + patch_size <= W
                  /\ tf[use[w]].cache = v.used

\* An image half of SamplePatch that succeeded at the largest offsets, on an
\* image it could also have cut elsewhere.
C10_Witness ==
    \E w \in Workers :
      \E k \in HalfInvocations(w, ModeImage) :
        LET v == winvs[w][k]
        IN /\ v.kind = "SamplePatch" /\ v.err = "none"
           /\ v.used = <<v.arg.shape[1] - v.targ[1] - 1, v.arg.shape[2] - v.targ[1] - 1>>
           /\ v.used[1] > 0 /\ v.used[2] > 0

\* The workers hold an instance each.
OwnInstances == \A v, w \in Workers : v # w => use[v] # use[w]

\* C3: when the two workers run their paired calls each on an instance of its
\* own, under every interleaving of the halves the mask of a call is
\* transformed with the parameter sampled by the image half of that call.
C3_OwnInstancesKeepPairing ==
    OwnInstances =>
      \A w \in Workers :
        \A m \in HalfInvocations(w, ModeMask) :
          \E i \in HalfInvocations(w, ModeImage) :
            /\ i < m
            /\ winvs[w][i].err = "none"
            /\ winvs[w][i].used = winvs[w][m].used

\* Two workers share one instance, and the mask of one worker's call has been
\* transformed with the parameter sampled by the other worker's call, which
\* is not the one its own image was transformed with.
C3_Witness ==
    /\ Cardinality(Workers) = 2
    /\ ~OwnInstances
    /\ \E v, w \in Workers :
         /\ v # w
         /\ \E i \in HalfInvocations(w, ModeImage), m \in HalfInvocations(w, ModeMask),
               j \in HalfInvocations(v, ModeImage) :
              /\ winvs[w][i].err = "none" /\ winvs[w][m].err = "none"
              /\ winvs[w][m].used # winvs[w][i].used
              /\ winvs[w][m].used = winvs[v][j].used

\* A __getitem__ is past _load_image_and_mask and has not raised.
InApplyTransforms ==
    pc \in {"transform", "compose", "image_transform", "mask_transform"}

\* C4: in a dataset with no mask list, the mask of every get is the scalar
\* sentinel from the load on; no paired transform's mask half and no mask-only
\* post-transform is invoked, nothing at all is invoked on the sentinel, and
\* the mask get returns is the sentinel.
C4_SentinelNeverTransformed ==
    ~masks.configured =>
      /\ \A k \in DOMAIN spied :
           /\ spied[k].mode # ModeMask
           /\ spied[k].kind # "mask_transform"
           /\ spied[k].arg # Sentinel
      /\ InApplyTransforms => mask = Sentinel /\ loaded[2] = Sentinel
      /\ pc = "returned" => ret[2] = Sentinel /\ Len(ret) = 2

\* A get of a dataset without masks has returned, after a pipeline step whose
\* mask half is enabled transformed the image, with a mask-only
\* post-transform configured.
C4_Witness ==
    /\ ~masks.configured /\ mask_transform /\ pc = "returned"
    /\ ret[2] = Sentinel
    /\ \E k \in DOMAIN steps :
         /\ transform_.transforms[steps[k].step].apply_mask
         /\ steps[k].out[1] # steps[k].in[1]

\* The chain of Compose's executed steps: the k-th is the list's k-th
\* transform, called on the pair the step before returned (the loaded pair
\* for the first), and its output is one that transform can return for it.
ComposeChain ==
    \A k \in DOMAIN steps :
      /\ steps[k].step = k
      /\ steps[k].in = (IF k = 1 THEN loaded ELSE steps[k - 1].out)
      /\ steps[k].out \in
           {o.ret : o \in Call(transform_.transforms[k], steps[k].in[1], steps[k].in[2])}

\* C5: Compose executes its transforms once each in list order, every step on
\* the pair the previous step returned, and returns the pair of the last step;
\* with an empty list it returns the pair it was given.
C5_ComposeFoldsInOrder ==
    /\ (pc = "compose" /\ step >= 1) =>
         /\ Len(steps) = step - 1
         /\ ComposeChain
         /\ <<image, mask>> = (IF steps = <<>> THEN loaded ELSE steps[Len(steps)].out)
    /\ (pc = "image_transform" /\ transform_.configured) =>
         /\ Len(steps) = Len(transform_.transforms)
         /\ ComposeChain
         /\ <<image, mask>> = (IF steps = <<>> THEN loaded ELSE steps[Len(steps)].out)
    /\ (pc = "image_transform" /\ ~transform_.configured) =>
         <<image, mask>> = loaded /\ steps = <<>>

\* Compose has returned after two steps of different classes, each of which
\* changed the pair.
C5_Witness ==
    /\ pc = "image_transform" /\ Len(steps) = 2
    /\ transform_.transforms[1].kind # transform_.transforms[2].kind
    /\ steps[1].out # steps[1].in /\ steps[2].out # steps[2].in
    /\ <<image, mask>> = steps[2].out

\* C8: an image half of SamplePatch on an image whose height or width is
\* smaller than patch_size raises ValueError and returns no array; the error
\* ends Compose and the dataset's get, whose caller receives it.
C8_SmallImageRaisesToCaller ==
    \A k \in DOMAIN spied :
      LET v == spied[k]
      IN /\ (/\ v.kind = "SamplePatch" /\ v.mode = ModeImage
             /\ (v.arg.shape[1] < v.targ[1] \/ v.arg.shape[2] < v.targ[1]))
            => v.err = "ValueError"
         /\ v.err # "none" =>
              /\ k = Len(spied)
              /\ pc = "raised" /\ err = v.err /\ ret = <<>>
              /\ v.out = v.arg
              /\ Len(steps) < Len(transform_.transforms)

\* A get has raised ValueError to its caller from a SamplePatch that was not
\* the first step, on an image smaller than the patch in one dimension only.
C8_Witness ==
    /\ pc = "raised" /\ err = "ValueError" /\ Len(steps) = 1
    /\ spied # <<>>
    /\ LET v == spied[Len(spied)]
       IN /\ v.kind = "SamplePatch" /\ v.mode = ModeImage
          /\ v.arg.shape[1] >= v.targ[1] /\ v.arg.shape[2] < v.targ[1]

\* C9: Squarify returns an array whose two spatial dimensions are min(H, W):
\* the longer dimension, of excess d, loses floor(d / 2) entries at its start
\* and d - floor(d / 2) at its end; the shorter dimension and the channel axis
\* are whole.
C9_SquarifyCentreCrop ==
    \A k \in DOMAIN spied :
      LET v == spied[k]
          H == v.arg.shape[1]
          W == v.arg.shape[2]
          d == IF H >= W THEN H - W ELSE W - H
          before == d \div 2
          after == d - before
      IN v.kind = "Squarify" =>
           /\ v.err = "none"
           /\ v.out.shape = WithHW(v.arg.shape, Min(H, W), Min(H, W))
           /\ Len(v.out.shape) = Len(v.arg.shape)
           /\ v.out.hist = Append(v.arg.hist,
                [op |-> "slice",
                 args |-> IF H >= W THEN <<before, H - after, 0, W>>
                                    ELSE <<0, H, before, W - after>>])

\* Squarify has cropped a three-axis image and its two-axis mask, both with
\* an odd excess of height.
C9_Witness ==
    /\ \E k \in DOMAIN spied :
         /\ spied[k].kind = "Squarify" /\ Len(spied[k].arg.shape) = 3
         /\ spied[k].arg.shape[1] - spied[k].arg.shape[2] = 1
         /\ spied[k].out.shape[1] = spied[k].arg.shape[2]
    /\ \E k \in DOMAIN spied :
         /\ spied[k].kind = "Squarify" /\ Len(spied[k].arg.shape) = 2
         /\ spied[k].arg.shape[1] - spied[k].arg.shape[2] = 1

\* The subclass populated the lists consistently and stored the count.
ConsistentlyPopulated ==
    /\ nb_images = Len(images)
    /\ masks.configured => Len(masks.refs) = Len(images)

\* C6: a get with an index outside [0, length()) fails with IndexError and
\* returns nothing, and a get with an index inside it does not raise
\* IndexError (stated for the consistently populated datasets only).
C6_IndexErrorOutsideRange ==
    (ConsistentlyPopulated /\ pc \notin {"constructing", "idle"}) =>
      /\ (index < 0 \/ index >= length) => (pc = "raised" /\ err = "IndexError")
      /\ (0 <= index /\ index < length) => err # "IndexError"

\* C7: at every point from construction on, length() is the number of image
\* references the dataset holds, and a configured mask list is as long as the
\* image list (stated for the subclasses that are given lists of one length).
C7_LengthIsSampleCount ==
    (subclass.with_masks => subclass.n_masks = subclass.n_images) =>
      /\ length = Len(images)
      /\ masks.configured => Len(masks.refs) = Len(images)

====
